---- MODULE Spec2Model ----
(***************************************************************************)
(* Model of LongestHeadRun.py: the counting recurrences A_fair, B_fair, C  *)
(* and A_bias, the fair-coin probabilities built on them, and the scanner  *)
(* determine_longest_run working on a caller-owned list.                   *)
(*                                                                         *)
(* Two specifications share the variables:                                 *)
(*   SpecCount - the inputs (n, k, x) are drawn in InitCount and one of    *)
(*               the counting / probability functions is applied;          *)
(*   Spec      - the caller's list is drawn in Init and                    *)
(*               determine_longest_run is called on it again and again.    *)
(*                                                                         *)
(* Numbers: Python integers are modelled by TLA+ integers; the model's     *)
(* bounds keep every value far below 2^31 (and below 2^53, so that the     *)
(* float conversions float(..) and int(..) of the source are exact on      *)
(* every value that occurs here).  A float quotient a / b is kept as the   *)
(* unreduced pair [num |-> a, den |-> b].                                  *)
(***************************************************************************)
EXTENDS Integers, Sequences, FiniteSets, TLC

VARIABLES
    fn,        \* name of the function applied last ("none" before any call)
    n,         \* argument n : sequence length
    k,         \* argument k : number of heads (used by C only)
    x,         \* argument x : bound on the longest run
    ret,       \* returned number as the pair [num, den]
    sequence,  \* the caller-owned list handed to determine_longest_run
    orig,      \* history: the list as the caller built it
    ncalls,    \* history: calls of determine_longest_run made on the list
    args,      \* arguments of the last scanner call (the list as passed in)
    out        \* outcome of the last scanner call

vars == <<fn, n, k, x, ret, sequence, orig, ncalls, args, out>>

countVars == <<fn, n, k, x, ret>>
scanVars  == <<sequence, orig, ncalls, args, out>>

(***************************************************************************)
(* Bounds of the model.                                                    *)
(***************************************************************************)
MaxN   == 8      \* largest sequence length n (and head count k) drawn
MaxX   == 4      \* largest run bound x drawn
MaxLen == 5      \* longest caller list handed to the scanner

(***************************************************************************)
(* Arithmetic helpers used by the source through Python / scipy.           *)
(***************************************************************************)
RECURSIVE Pow2(_)
\* 2**e for e >= 0.  (Python gives the float 2**e < 1 for e < 0; the
\* actions below never reach a negative exponent: n >= 0 is drawn, the
\* recursions keep n - 1 - j >= 0, and the functions that pass n - 1 are
\* applied for n >= 1 only.)
Pow2(e) == IF e <= 0 THEN 1 ELSE 2 * Pow2(e - 1)

RECURSIVE binom(_, _)
\* scipy.special.binom(n, k) for integers n >= 0, k >= 0: the binomial
\* coefficient (0 when k > n), by Pascal's rule.
binom(nn, kk) ==
    IF kk = 0 THEN 1
    ELSE IF nn = 0 THEN 0
    ELSE binom(nn - 1, kk - 1) + binom(nn - 1, kk)

RECURSIVE SumOver(_, _)
\* sum of f[i] over the finite set S of integers
SumOver(f, S) ==
    IF S = {} THEN 0
    ELSE LET i == CHOOSE j \in S : TRUE IN f[i] + SumOver(f, S \ {i})

(***************************************************************************)
(* RunCounter.                                                             *)
(***************************************************************************)
RECURSIVE A_fair_short_sum(_, _)
\* Mutation of A_fair: the loop runs over arange(x) instead of arange(x+1).
A_fair_short_sum(nn, xx) ==
    IF nn <= xx THEN Pow2(nn)
    ELSE SumOver([j \in 0..(xx - 1) |-> A_fair_short_sum(nn - 1 - j, xx)],
                 0..(xx - 1))

RECURSIVE A_fair(_, _)
\* def A_fair(n, x): 2**n if n <= x, else the sum of A_fair(num, x) over
\* num in n - 1 - arange(x+1).  arange(x+1) is empty when x + 1 <= 0, so
\* the sum is 0 for x = -1 and n >= 0.
A_fair(nn, xx) ==
    IF nn <= xx THEN Pow2(nn)
    ELSE SumOver([j \in 0..xx |-> A_fair(nn - 1 - j, xx)], 0..xx)

\* def B_fair(n, x)
B_fair(nn, xx) ==
    IF xx = 0 THEN 0 ELSE 2 * A_fair(nn - 1, xx - 1)

RECURSIVE C_strict_base(_, _, _)
\* Mutation of C: the first test is k < x instead of k <= x.
C_strict_base(nn, kk, xx) ==
    IF kk < xx THEN binom(nn, kk)
    ELSE IF xx < kk /\ kk < nn
         THEN SumOver([j \in 0..xx |-> C_strict_base(nn - 1 - j, kk - j, xx)],
                      0..xx)
         ELSE 0

RECURSIVE C(_, _, _)
\* def C(n, k, x): binom(n, k) if k <= x; the sum of C(n-1-j, k-j, x) over
\* j in arange(x+1) if x < k < n; otherwise 0.
C(nn, kk, xx) ==
    IF kk <= xx THEN binom(nn, kk)
    ELSE IF xx < kk /\ kk < nn
         THEN SumOver([j \in 0..xx |-> C(nn - 1 - j, kk - j, xx)], 0..xx)
         ELSE 0

\* Mutation of A_bias: the loop runs over arange(n) instead of arange(n+1).
A_bias_misses_last(nn, xx) ==
    SumOver([kk \in 0..(nn - 1) |-> C(nn, kk, xx)], 0..(nn - 1))

\* def A_bias(n, x): the sum of C(n, k, x) over k in arange(n+1)
A_bias(nn, xx) ==
    SumOver([kk \in 0..nn |-> C(nn, kk, xx)], 0..nn)

(***************************************************************************)
(* ProbabilityEngine (fair coin).                                          *)
(***************************************************************************)
\* Mutation of prob_longest_head_run_fair: divides by 2**(n-1).
prob_longest_head_run_fair_half_den(nn, xx) ==
    [num |-> A_fair(nn, xx), den |-> Pow2(nn - 1)]

\* def prob_longest_head_run_fair(n, x): float(A_fair(n, x)) / 2**n
prob_longest_head_run_fair(nn, xx) ==
    [num |-> A_fair(nn, xx), den |-> Pow2(nn)]

\* Mutation of prob_longest_head_or_tail_run_fair: passes x instead of x-1.
prob_longest_head_or_tail_run_fair_same_bound(nn, xx) ==
    prob_longest_head_run_fair(nn - 1, xx)

\* def prob_longest_head_or_tail_run_fair(n, x)
prob_longest_head_or_tail_run_fair(nn, xx) ==
    prob_longest_head_run_fair(nn - 1, xx - 1)

(***************************************************************************)
(* RunScanner: determine_longest_run(sequence, heads_val, only_heads).     *)
(*                                                                         *)
(* List entries are comma-free strings; "" is one of them.  None is the    *)
(* value of an argument heads_val that was not supplied.  A label          *)
(* (longest_run_value) is kept as the sequence of its parts: <<"H">> is    *)
(* the symbol "H" and <<"H", "T">> is the string ",".join(["H", "T"]),     *)
(* so the Python comparisons longest_run_value == "" and                   *)
(* longest_run_value != entry are comparisons with <<"">> and <<entry>>.   *)
(*                                                                         *)
(* The outcome of a call is [status, longest_run, longest_run_value,       *)
(* warning]; status "ok" is a normal return, and the exceptions are named  *)
(*   "TooManyDistinctValues" - AssertionError, more than 2 unique values,  *)
(*   "EmptySequence"         - ValueError, the input sequence was empty,   *)
(*   "ValueNotFound"         - ValueError, heads_val is not in the set.    *)
(***************************************************************************)
Symbols == {"H", "T", ""}
None    == "<None>"

NoArgs == [sequence |-> <<>>, heads_val |-> None, only_heads |-> FALSE]
NoOut  == [status |-> "none", longest_run |-> 0, longest_run_value |-> <<>>,
           warning |-> FALSE]

\* set(sequence)
set(seq) == {seq[i] : i \in 1..Len(seq)}

\* Mutation of pop: reads the last element and leaves the list alone.
pop_keeps_list(seq) == [value |-> seq[Len(seq)], list |-> seq]

\* sequence.pop(): the last element is returned and removed from the list
pop(seq) == [value |-> seq[Len(seq)], list |-> SubSeq(seq, 1, Len(seq) - 1)]

\* Mutation of Branch: the test "heads_val not in sequence_set" is missing.
Branch_unchecked(seq, heads_val) ==
    LET sequence_set == set(seq) IN
    IF Cardinality(sequence_set) > 2 THEN "TooManyDistinctValues"
    ELSE IF Cardinality(sequence_set) = 1 THEN "single"
    ELSE IF Cardinality(sequence_set) = 0 THEN "EmptySequence"
    ELSE IF heads_val = None THEN "scan_arbitrary"
    ELSE "scan"

\* The sanity checks and the choice of heads_val, in the order of the code:
\* which branch a call takes.
Branch(seq, heads_val) ==
    LET sequence_set == set(seq) IN
    IF Cardinality(sequence_set) > 2 THEN "TooManyDistinctValues"
    ELSE IF Cardinality(sequence_set) = 1 THEN "single"
    ELSE IF Cardinality(sequence_set) = 0 THEN "EmptySequence"
    ELSE IF heads_val = None THEN "scan_arbitrary"
    ELSE IF heads_val \notin sequence_set THEN "ValueNotFound"
    ELSE "scan"

\* Mutation of HeadsStep: current_run is not reset on the other symbol.
HeadsStep_no_reset(st, entry, heads_val) ==
    IF entry = heads_val
    THEN LET current_run == st.current_run + 1 IN
         [longest_run |-> IF current_run > st.longest_run
                          THEN current_run ELSE st.longest_run,
          current_run |-> current_run]
    ELSE st

\* One pass of the loop "for entry in sequence" of the only_heads branch.
HeadsStep(st, entry, heads_val) ==
    IF entry = heads_val
    THEN LET current_run == st.current_run + 1 IN
         [longest_run |-> IF current_run > st.longest_run
                          THEN current_run ELSE st.longest_run,
          current_run |-> current_run]
    ELSE [longest_run |-> st.longest_run, current_run |-> 0]

RECURSIVE HeadsScan(_, _, _, _)
HeadsScan(st, seq, i, heads_val) ==
    IF i >= Len(seq) THEN st
    ELSE HeadsScan(HeadsStep(st, seq[i + 1], heads_val), seq, i + 1, heads_val)

\* Mutation of EitherStep: current_run restarts at 0 instead of 1 when the
\* symbol changes.
EitherStep_restart_at_zero(st, i, entry) ==
    LET current_run == IF entry = st.prev_entry \/ i = 0
                       THEN st.current_run + 1 ELSE 0
        grew        == current_run > st.longest_run
        longest_run == IF grew THEN current_run ELSE st.longest_run
        value       == IF grew
                       THEN (IF i = 0 THEN <<entry>> ELSE <<st.prev_entry>>)
                       ELSE st.longest_run_value
        joined      == IF current_run = longest_run
                       THEN IF value = <<"">> THEN <<entry>>
                            ELSE IF value # <<entry>> THEN value \o <<entry>>
                            ELSE value
                       ELSE value
    IN  [longest_run |-> longest_run, current_run |-> current_run,
         prev_entry |-> entry, longest_run_value |-> joined]

\* One pass of the loop "for i, entry in enumerate(sequence)" of the
\* heads-or-tails branch; i counts from 0.
EitherStep(st, i, entry) ==
    LET current_run == IF entry = st.prev_entry \/ i = 0
                       THEN st.current_run + 1 ELSE 1
        grew        == current_run > st.longest_run
        longest_run == IF grew THEN current_run ELSE st.longest_run
        value       == IF grew
                       THEN (IF i = 0 THEN <<entry>> ELSE <<st.prev_entry>>)
                       ELSE st.longest_run_value
        joined      == IF current_run = longest_run
                       THEN IF value = <<"">> THEN <<entry>>
                            ELSE IF value # <<entry>> THEN value \o <<entry>>
                            ELSE value
                       ELSE value
    IN  [longest_run |-> longest_run, current_run |-> current_run,
         prev_entry |-> entry, longest_run_value |-> joined]

RECURSIVE EitherScan(_, _, _)
EitherScan(st, seq, i) ==
    IF i >= Len(seq) THEN st
    ELSE EitherScan(EitherStep(st, i, seq[i + 1]), seq, i + 1)

\* Lines 302-335: the result of the scan once heads_val is settled.
Scan(seq, heads_val, only_heads) ==
    IF only_heads
    THEN LET st == HeadsScan([longest_run |-> 0, current_run |-> 0],
                             seq, 0, heads_val)
         IN  [longest_run |-> st.longest_run,
              longest_run_value |-> <<heads_val>>]
    ELSE LET st == EitherScan([longest_run |-> 0, current_run |-> 0,
                               prev_entry |-> heads_val,
                               longest_run_value |-> <<heads_val>>], seq, 0)
         IN  [longest_run |-> st.longest_run,
              longest_run_value |-> st.longest_run_value]

Raise(status) ==
    [status |-> status, longest_run |-> 0, longest_run_value |-> <<>>,
     warning |-> FALSE]

Return(r, warning) ==
    [status |-> "ok", longest_run |-> r.longest_run,
     longest_run_value |-> r.longest_run_value, warning |-> warning]

\* def determine_longest_run(sequence, heads_val=None, only_heads=False),
\* called on the caller's list.
determine_longest_run(heads_val, only_heads) ==
    /\ ncalls < MaxLen + 2
    /\ ncalls' = ncalls + 1
    /\ args' = [sequence |-> sequence, heads_val |-> heads_val,
                only_heads |-> only_heads]
    /\ LET branch == Branch(sequence, heads_val) IN
       CASE branch = "single" ->
              \* longest_run = len(sequence_set); sequence.pop()
              /\ sequence' = pop(sequence).list
              /\ out' = Return([longest_run |-> Cardinality(set(sequence)),
                                longest_run_value |-> <<pop(sequence).value>>],
                               FALSE)
         [] branch = "scan_arbitrary" ->
              \* heads_val = sequence_set.pop(): either element of the set
              /\ sequence' = sequence
              /\ \E hv \in set(sequence) :
                    out' = Return(Scan(sequence, hv, only_heads), only_heads)
         [] branch = "scan" ->
              /\ sequence' = sequence
              /\ out' = Return(Scan(sequence, heads_val, only_heads), FALSE)
         [] OTHER ->
              /\ sequence' = sequence
              /\ out' = Raise(branch)
    /\ UNCHANGED orig
    /\ UNCHANGED countVars

\* every list of at most MaxLen entries
Lists == UNION {[1..len -> Symbols] : len \in 0..MaxLen}

Init ==
    /\ sequence \in Lists
    /\ orig = sequence
    /\ ncalls = 0
    /\ args = NoArgs
    /\ out = NoOut
    /\ fn = "none"
    /\ n = 0
    /\ k = 0
    /\ x = 0
    /\ ret = [num |-> 0, den |-> 1]

Next ==
    \E heads_val \in Symbols \cup {None}, only_heads \in BOOLEAN :
        determine_longest_run(heads_val, only_heads)

Spec == Init /\ [][Next]_vars

(***************************************************************************)
(* SpecCount: the inputs are drawn, then one function is applied.          *)
(***************************************************************************)
Count(v) == [num |-> v, den |-> 1]      \* an integer result


InitCount ==
    /\ n \in 0..MaxN
    /\ k \in 0..MaxN
    /\ x \in 0..MaxX
    /\ fn = "none"
    /\ ret = Count(0)
    /\ sequence = <<>>
    /\ orig = <<>>
    /\ ncalls = 0
    /\ args = NoArgs
    /\ out = NoOut

Call_A_fair ==
    /\ fn = "none"
    /\ fn' = "A_fair"
    /\ ret' = Count(A_fair(n, x))
    /\ UNCHANGED <<n, k, x>>
    /\ UNCHANGED scanVars

\* B_fair passes n - 1 to A_fair: applied for n >= 1, where n - 1 is a length.
Call_B_fair ==
    /\ fn = "none"
    /\ n >= 1
    /\ fn' = "B_fair"
    /\ ret' = Count(B_fair(n, x))
    /\ UNCHANGED <<n, k, x>>
    /\ UNCHANGED scanVars

Call_prob_longest_head_run_fair ==
    /\ fn = "none"
    /\ fn' = "prob_longest_head_run_fair"
    /\ ret' = prob_longest_head_run_fair(n, x)
    /\ UNCHANGED <<n, k, x>>
    /\ UNCHANGED scanVars

\* Passes n - 1 likewise: applied for n >= 1.
Call_prob_longest_head_or_tail_run_fair ==
    /\ fn = "none"
    /\ n >= 1
    /\ fn' = "prob_longest_head_or_tail_run_fair"
    /\ ret' = prob_longest_head_or_tail_run_fair(n, x)
    /\ UNCHANGED <<n, k, x>>
    /\ UNCHANGED scanVars

Call_C ==
    /\ fn = "none"
    /\ fn' = "C"
    /\ ret' = Count(C(n, k, x))
    /\ UNCHANGED <<n, k, x>>
    /\ UNCHANGED scanVars

Call_A_bias ==
    /\ fn = "none"
    /\ fn' = "A_bias"
    /\ ret' = Count(A_bias(n, x))
    /\ UNCHANGED <<n, k, x>>
    /\ UNCHANGED scanVars

NextCount ==
    \/ Call_A_fair
    \/ Call_B_fair
    \/ Call_prob_longest_head_run_fair
    \/ Call_prob_longest_head_or_tail_run_fair
    \/ Call_C
    \/ Call_A_bias

SpecCount == InitCount /\ [][NextCount]_vars

(***************************************************************************)
(* Brute-force enumeration, the yardstick of the counting claims.          *)
(* A toss sequence of length nn is a function 1..nn -> {0, 1}; 1 = head.   *)
(***************************************************************************)
Tosses(nn) == [1..nn -> {0, 1}]

Max(S) == CHOOSE m \in S : \A o \in S : o <= m

\* positions i..j of s form a block of the value v
IsBlock(s, v, i, j) == i <= j /\ \A t \in i..j : s[t] = v

\* length of the longest block of consecutive v in s (0 if v is absent)
LongestBlock(s, len, v) ==
    Max({0} \cup {j - i + 1 : <<i, j>> \in
                     {p \in (1..len) \X (1..len) : IsBlock(s, v, p[1], p[2])}})

HeadsIn(s, len) == Cardinality({i \in 1..len : s[i] = 1})

\* the toss sequences of each length with their longest head run, longest
\* tail run and number of heads
TossTable ==
    [nn \in 0..MaxN |->
        [s \in Tosses(nn) |-> [heads |-> LongestBlock(s, nn, 1),
                               tails |-> LongestBlock(s, nn, 0),
                               count |-> HeadsIn(s, nn)]]]

\* number of sequences of length nn with no head run longer than xx
BruteFair(nn, xx) ==
    Cardinality({s \in Tosses(nn) : TossTable[nn][s].heads <= xx})

\* ... with exactly kk heads and no head run longer than xx
BruteExact(nn, kk, xx) ==
    Cardinality({s \in Tosses(nn) : /\ TossTable[nn][s].count = kk
                                    /\ TossTable[nn][s].heads <= xx})

\* ... with neither a head run nor a tail run longer than xx
BruteEither(nn, xx) ==
    Cardinality({s \in Tosses(nn) : /\ TossTable[nn][s].heads <= xx
                                    /\ TossTable[nn][s].tails <= xx})

TwoValued(seq)    == Cardinality(set(seq)) = 2
SingleValued(seq) == Cardinality(set(seq)) = 1

(***************************************************************************)
(* Claims about the counting functions, checked under SpecCount.           *)
(***************************************************************************)

\* C1: A_fair(n, x) is the number of the 2^n toss sequences of length n
\* with no head run longer than x, as counted by enumeration: 2^n when
\* n <= x, and for n > x the sum over j = 0..x of the counts for length
\* n - 1 - j.
C1_AFairCountsBoundedHeadRuns ==
    fn = "A_fair" =>
        /\ ret = Count(BruteFair(n, x))
        /\ (n <= x => ret.num = Pow2(n))
        /\ (n > x => ret.num =
                SumOver([j \in 0..x |-> BruteFair(n - 1 - j, x)], 0..x))

\* C1 witness: a recursive case, A_fair(6, 2) = 44 < 2^6.
C1_Witness ==
    fn = "A_fair" /\ n = 6 /\ x = 2 /\ ret = Count(44)

\* C2 as stated: A_fair(8, 3) returns 227 and
\* prob_longest_head_run_fair(8, 3) is the ratio 227/256.
C2_Original ==
    /\ (fn = "A_fair" /\ n = 8 /\ x = 3 => ret = Count(227))
    /\ (fn = "prob_longest_head_run_fair" /\ n = 8 /\ x = 3
            => ret.num * 256 = 227 * ret.den)

\* C2 amended: A_fair(8, 3) returns 208, the number found by enumerating
\* the 256 sequences, and prob_longest_head_run_fair(8, 3) is the ratio
\* 208/256.
C2_AFair83Is208 ==
    /\ (fn = "A_fair" /\ n = 8 /\ x = 3
            => ret = Count(208) /\ ret.num = BruteFair(8, 3))
    /\ (fn = "prob_longest_head_run_fair" /\ n = 8 /\ x = 3
            => ret.den = 256 /\ ret.num * 256 = 208 * ret.den)

\* C2 witness: prob_longest_head_run_fair(8, 3) has returned 208/256.
C2_Witness ==
    /\ fn = "prob_longest_head_run_fair" /\ n = 8 /\ x = 3
    /\ ret = [num |-> 208, den |-> 256]

\* C3: for 0 <= k <= n, C(n, k, x) is the number of toss sequences of
\* length n with exactly k heads and no head run longer than x, as counted
\* by enumeration: binom(n, k) when k <= x, the sum over j = 0..x of the
\* counts for (n - 1 - j, k - j) when x < k < n, and 0 when k = n > x.
C3_CCountsExactKBoundedRuns ==
    fn = "C" /\ k <= n =>
        /\ ret = Count(BruteExact(n, k, x))
        /\ (k <= x => ret.num = binom(n, k))
        /\ (x < k /\ k < n => ret.num =
                SumOver([j \in 0..x |-> BruteExact(n - 1 - j, k - j, x)], 0..x))
        /\ (k = n /\ n > x => ret.num = 0)

\* C3 witness: the recursive case C(7, 5, 3) = 12 of the 21 arrangements.
C3_Witness ==
    fn = "C" /\ n = 7 /\ k = 5 /\ x = 3 /\ ret = Count(12) /\ binom(7, 5) = 21

\* C4: A_bias(n, x), the sum of C(n, k, x) over k = 0..n, equals
\* A_fair(n, x).
C4_ABiasEqualsAFair ==
    fn = "A_bias" => ret = Count(A_fair(n, x))

\* C4 witness: A_bias(5, 2) = 24, a case where both recursions unfold.
C4_Witness ==
    fn = "A_bias" /\ n = 5 /\ x = 2 /\ ret = Count(24)

\* C5: for n >= 1, prob_longest_head_or_tail_run_fair(n, x), computed as
\* A_fair(n-1, x-1) / 2^(n-1), equals (number of sequences of length n whose
\* longest run of either symbol is <= x) / 2^n, and lies in [0, 1].
C5_EitherRunProbability ==
    fn = "prob_longest_head_or_tail_run_fair" /\ n >= 1 =>
        /\ ret.den = Pow2(n - 1)
        /\ ret.num * Pow2(n) = BruteEither(n, x) * ret.den
        /\ 0 <= ret.num /\ ret.num <= ret.den

\* C5 witness: n = 5, x = 2 gives 8/16, i.e. 16 of the 32 sequences.
C5_Witness ==
    /\ fn = "prob_longest_head_or_tail_run_fair" /\ n = 5 /\ x = 2
    /\ ret = [num |-> 8, den |-> 16] /\ BruteEither(5, 2) = 16

(***************************************************************************)
(* Claims about determine_longest_run, checked under Spec.                 *)
(***************************************************************************)
RunOf(seq, v) == LongestBlock(seq, Len(seq), v)

\* C6 as stated: in either-symbol mode on a list with two distinct values
\* the label is the symbol with the strictly longer longest run, or, on a
\* tie, a comma-joined string holding each of the two symbols exactly once.
C6_Original ==
    out.status = "ok" /\ ~args.only_heads /\ TwoValued(args.sequence) =>
        \A a, b \in set(args.sequence) :
            a # b =>
                /\ RunOf(args.sequence, a) > RunOf(args.sequence, b)
                       => out.longest_run_value = <<a>>
                /\ RunOf(args.sequence, a) = RunOf(args.sequence, b)
                       => out.longest_run_value \in {<<a, b>>, <<b, a>>}

\* C7: in either-symbol mode on a list with two distinct values the
\* returned run length is the length of the longest block of identical
\* symbols, and it is the same whichever of the two symbols is heads_val.
C7_EitherModeRunLength ==
    out.status = "ok" /\ ~args.only_heads /\ TwoValued(args.sequence) =>
        /\ out.longest_run =
               Max({RunOf(args.sequence, v) : v \in set(args.sequence)})
        /\ \A hv \in set(args.sequence) :
               Scan(args.sequence, hv, FALSE).longest_run = out.longest_run

\* C7 witness: heads_val differs from the first entry and the longest
\* block is in the middle of the list.
C7_Witness ==
    /\ out.status = "ok" /\ ~args.only_heads
    /\ args.sequence = <<"T", "H", "H", "T">> /\ args.heads_val = "H"
    /\ out.longest_run = 2

\* C8: in heads-only mode on a list with two distinct values and a
\* heads_val that is one of them, the result is (m, heads_val) with m the
\* length of the longest block of heads_val; the other symbol's runs never
\* count.
C8_HeadsOnlyRunLength ==
    /\ out.status = "ok" /\ args.only_heads /\ TwoValued(args.sequence)
    /\ args.heads_val \in set(args.sequence)
    => /\ out.longest_run = RunOf(args.sequence, args.heads_val)
       /\ out.longest_run_value = <<args.heads_val>>

\* C8 witness: the tails run (3) is longer than the reported heads run (2).
C8_Witness ==
    /\ out.status = "ok" /\ args.only_heads
    /\ args.sequence = <<"H", "H", "T", "T", "T">> /\ args.heads_val = "H"
    /\ out.longest_run = 2 /\ out.longest_run_value = <<"H">>

\* C9 as stated: on a non-empty list with one or two distinct values, in
\* either mode, a supplied heads_val that does not occur in the list makes
\* the call fail with ValueNotFound and return no result.
C9_Original ==
    /\ out.status # "none" /\ Len(args.sequence) >= 1
    /\ Cardinality(set(args.sequence)) \in {1, 2}
    /\ args.heads_val # None /\ args.heads_val \notin set(args.sequence)
    => out = Raise("ValueNotFound")

\* C9 amended: on a list with exactly two distinct values, in either mode,
\* a supplied heads_val that does not occur in the list makes the call fail
\* with ValueNotFound, return no result and leave the list as it was.
C9_ValueNotFoundOnTwoValued ==
    /\ out.status # "none" /\ TwoValued(args.sequence)
    /\ args.heads_val # None /\ args.heads_val \notin set(args.sequence)
    => out = Raise("ValueNotFound") /\ sequence = args.sequence

\* C9 witness: heads_val "" passed with the list ["H", "T"].
C9_Witness ==
    /\ args.sequence = <<"H", "T">> /\ args.heads_val = ""
    /\ out.status = "ValueNotFound"

====
